---- MODULE Spec2Model ----
(***************************************************************************)
(* Identity hashing and composition of agogos blocks and systems.          *)
(*                                                                         *)
(* Nodes live in a heap indexed 1..Len(cls).  Strings are sequences of     *)
(* tokens; joblib.hash is an injective digest, modelled by interning every *)
(* digested string in the table `digests`: the digest of a string is the   *)
(* one-token string naming its index in the table.  str(node) is the       *)
(* dataclass repr of the node, built as Python builds it.                  *)
(***************************************************************************)
EXTENDS Naturals, Sequences, FiniteSets, TLC

\* Bounds of the model.
MaxNodes == 3
MaxSteps == 2
MaxRehash == 1
MaxBuildNodes == 12
MaxScript == 2
MaxRunSteps == 3
MaxNewSteps == 2
MaxWrapNodes == 2
MaxReplaceNodes == 5
MaxLoneNodes == 3
MaxComposeNodes == 3
MaxWeight == 2

\* The absent parent / absent Pipeline slot.
None == 0

VARIABLES
    cls,        \* node -> __class__.__name__
    parent,     \* node -> _parent (None or a node)
    children,   \* node -> _children
    steps,      \* node -> steps (systems)
    weights,    \* node -> weights (parallel systems), each <<num, den>>
    slots,      \* node -> [x_sys, y_sys, train_sys, pred_sys, label_sys] (Pipeline)
    hash,       \* node -> _hash
    digests,    \* the strings digested so far; a digest names its index here
    rehashes,   \* number of explicit hash computations made by the caller
    built,      \* the trees built from fresh nodes: shape, node range, untouched since
    last        \* the last operation: what was called, on what, and the _set_hash calls it made

vars == <<cls, parent, children, steps, weights, slots, hash, digests, rehashes, built, last>>

----------------------------------------------------------------------------
\* Classes

BlockClasses == {"Transformer", "Trainer"}
SeqClasses == {"TransformingSystem", "TrainingSystem"}
ParClasses == {"ParallelTransformingSystem", "ParallelTrainingSystem"}

\* The core class behind the training systems.  training.py derives
\* TrainingSystem and ParallelTrainingSystem from a _System that _core.py does
\* not define; they are given the sequential and the parallel core system,
\* as the specification describes them.
TrainingBase(c) == IF c = "TrainingSystem" THEN "seq" ELSE "par"

\* Classes of the first layout of the package, built on Block and System.
RefinerClasses == {"Refiner", "RefiningSystem"}

\* User subclasses, as the tests define them: blocks that implement their
\* operation and parallel systems that implement concat.
UserClasses ==
    {"MyTransformer", "MyTrainer", "MyRefiner",
     "MyParallelTransformingSystem", "MyParallelTrainingSystem"}

\* The library class a class is, or derives from.
Super(c) ==
    CASE c = "MyTransformer" -> "Transformer"
      [] c = "MyTrainer" -> "Trainer"
      [] c = "MyRefiner" -> "Refiner"
      [] c = "MyParallelTransformingSystem" -> "ParallelTransformingSystem"
      [] c = "MyParallelTrainingSystem" -> "ParallelTrainingSystem"
      [] OTHER -> c

\* The core class a class derives from.
Kind(c) ==
    IF Super(c) \in BlockClasses THEN "block"
    ELSE IF Super(c) = "TransformingSystem" THEN "seq"
    ELSE IF Super(c) = "ParallelTransformingSystem" THEN "par"
    ELSE IF Super(c) = "Pipeline" THEN "pipeline"
    ELSE IF Super(c) = "Refiner" THEN "oldblock"
    ELSE IF Super(c) = "RefiningSystem" THEN "oldsys"
    ELSE TrainingBase(Super(c))

\* Type names in Python's str order, the order sorted() uses on the key.
TypeNames ==
    << "MyParallelTrainingSystem", "MyParallelTransformingSystem", "MyRefiner",
       "MyTrainer", "MyTransformer",
       "ParallelTrainingSystem", "ParallelTransformingSystem", "Pipeline",
       "Refiner", "RefiningSystem",
       "Trainer", "TrainingSystem", "Transformer", "TransformingSystem" >>

NameRank(c) == CHOOSE i \in 1..Len(TypeNames) : TypeNames[i] = c

NoSlots == [x_sys |-> None, y_sys |-> None, train_sys |-> None,
            pred_sys |-> None, label_sys |-> None]

SlotNames == <<"x_sys", "y_sys", "train_sys", "pred_sys", "label_sys">>

\* The heap as one value.
Heap == [cls |-> cls, parent |-> parent, children |-> children, steps |-> steps,
         weights |-> weights, slots |-> slots, hash |-> hash, tab |-> digests]

Nodes == 1..Len(cls)

----------------------------------------------------------------------------
\* str(self): the dataclass repr

RECURSIVE Repr(_, _, _)
RECURSIVE ReprItems(_, _, _, _)

\* The elements of a list, separated by ", ".
ReprItems(H, l, i, vis) ==
    IF i > Len(l) THEN <<>>
    ELSE (IF i > 1 THEN <<", ">> ELSE <<>>)
         \o Repr(H, l[i], vis) \o ReprItems(H, l, i + 1, vis)

ReprList(H, l, vis) == <<"[">> \o ReprItems(H, l, 1, vis) \o <<"]">>

RECURSIVE ReprWeights(_, _)
ReprWeights(w, i) ==
    IF i > Len(w) THEN <<>>
    ELSE (IF i > 1 THEN <<", ">> ELSE <<>>)
         \o <<ToString(w[i][1]), "/", ToString(w[i][2])>> \o ReprWeights(w, i + 1)

RECURSIVE ReprSlots(_, _, _, _)
ReprSlots(H, n, i, vis) ==
    IF i > Len(SlotNames) THEN <<>>
    ELSE <<", ", SlotNames[i], "=">> \o Repr(H, H.slots[n][SlotNames[i]], vis)
         \o ReprSlots(H, n, i + 1, vis)

\* repr(n) while the reprs of the nodes in vis are in progress (a node whose
\* repr is in progress prints as "...").
Repr(H, n, vis) ==
    IF n = None THEN <<"None">>
    ELSE IF n \in vis THEN <<"...">>
    ELSE IF Kind(H.cls[n]) = "oldblock" THEN <<H.cls[n], "()">>
    ELSE IF Kind(H.cls[n]) = "oldsys"
    THEN <<H.cls[n], "(steps=">> \o ReprList(H, H.steps[n], vis \cup {n}) \o <<")">>
    ELSE LET v == vis \cup {n}
             k == Kind(H.cls[n])
         IN  <<H.cls[n], "(_parent=">> \o Repr(H, H.parent[n], v)
             \o <<", _children=">> \o ReprList(H, H.children[n], v)
             \o <<", _hash='">> \o H.hash[n] \o <<"'">>
             \o (IF k \in {"seq", "par"}
                 THEN <<", steps=">> \o ReprList(H, H.steps[n], v) ELSE <<>>)
             \o (IF k = "par"
                 THEN <<", weights=[">> \o ReprWeights(H.weights[n], 1) \o <<"]">>
                 ELSE <<>>)
             \o (IF k = "pipeline" THEN ReprSlots(H, n, 1, v) ELSE <<>>)
             \o <<")">>

\* Variant: the repr names the object, as object.__repr__ does.
StrWithIdentity(H, n) == <<"<", ToString(n), ">">> \o Repr(H, n, {})

Str(H, n) == Repr(H, n, {})

----------------------------------------------------------------------------
\* joblib.hash

DigestToken(i) == "h" \o ToString(i)

\* hash(s) in a heap with digest table H.tab: the table with s interned, and
\* the digest in field d.
Digest(tab, s) ==
    IF \E i \in 1..Len(tab) : tab[i] = s
    THEN [tab |-> tab, d |-> <<DigestToken(CHOOSE i \in 1..Len(tab) : tab[i] = s)>>]
    ELSE [tab |-> Append(tab, s), d |-> <<DigestToken(Len(tab) + 1)>>]

----------------------------------------------------------------------------
\* _set_hash
\*
\* A running computation is st = [H: heap, log: the _set_hash calls made so
\* far]; a log entry records the node, the prev_hash it was given, the entry
\* of the call that made it (0: the caller) and the hash it left on the node.

RECURSIVE SetHash(_, _, _, _)
RECURSIVE SeqLoop(_, _, _, _)
RECURSIVE ParLoop(_, _, _, _, _, _)

Called(st, n, prev, by) ==
    [st EXCEPT !.log = Append(@, [node |-> n, prev |-> prev, by |-> by, res |-> <<>>])]

Returned(st, n, k) == [st EXCEPT !.log[k].res = st.H.hash[n]]

\* _Base._set_hash
BaseSetHash(st, n, prev) ==
    LET d == Digest(st.H.tab, prev \o Str(st.H, n))
    IN  [st EXCEPT !.H.hash[n] = d.d, !.H.tab = d.tab]

\* Variant: every step is hashed against the prev_hash the system was given.
RECURSIVE SeqLoopSamePrev(_, _, _, _)
SeqLoopSamePrev(st, n, i, k) ==
    IF i > Len(st.H.steps[n]) THEN st
    ELSE LET step == st.H.steps[n][i]
             s1 == SetHash(st, step, st.log[k].prev, k)
             s2 == [s1 EXCEPT !.H.hash[n] = s1.H.hash[step]]
         IN  SeqLoopSamePrev(s2, n, i + 1, k)

\* _SequentialSystem._set_hash, the loop from step i on
SeqLoop(st, n, i, k) ==
    IF i > Len(st.H.steps[n]) THEN st
    ELSE LET step == st.H.steps[n][i]
             s1 == SetHash(st, step, st.H.hash[n], k)
             s2 == [s1 EXCEPT !.H.hash[n] = s1.H.hash[step]]
         IN  SeqLoop(s2, n, i + 1, k)

\* Variant: the system ends on the prev_hash it was given.
SeqSetHashKeepingPrev(st, n, prev, k) ==
    [SeqLoop([st EXCEPT !.H.hash[n] = prev], n, 1, k) EXCEPT !.H.hash[n] = prev]

SeqSetHash(st, n, prev, k) ==
    SeqLoop([st EXCEPT !.H.hash[n] = prev], n, 1, k)

\* _ParallelSystem._set_hash, the loop of the two-or-more-steps case
ParLoop(st, n, prev, i, total, k) ==
    IF i > Len(st.H.steps[n])
    THEN LET d == Digest(st.H.tab, total)
         IN  [st EXCEPT !.H.hash[n] = d.d, !.H.tab = d.tab]
    ELSE LET step == st.H.steps[n][i]
             s1 == SetHash(st, step, prev, k)
         IN  ParLoop(s1, n, prev, i + 1, total \o s1.H.hash[step], k)

\* Variant: a single step is digested like two or more.
ParSetHashWrapSingle(st, n, prev, k) ==
    LET s0 == [st EXCEPT !.H.hash[n] = prev]
    IN  IF Len(st.H.steps[n]) = 0 THEN s0
        ELSE ParLoop(s0, n, prev, 1, s0.H.hash[n], k)

ParSetHash(st, n, prev, k) ==
    LET s0 == [st EXCEPT !.H.hash[n] = prev]
        cnt == Len(st.H.steps[n])
    IN  IF cnt = 0 THEN s0
        ELSE IF cnt = 1
        THEN LET step == s0.H.steps[n][1]
                 s1 == SetHash(s0, step, prev, k)
             IN  [s1 EXCEPT !.H.hash[n] = s1.H.hash[step]]
        ELSE ParLoop(s0, n, prev, 1, s0.H.hash[n], k)

\* System._set_hash of the first layout: the steps' held hashes are folded
\* in, the steps are not re-hashed.
RECURSIVE OldSysLoop(_, _, _)
OldSysLoop(st, n, i) ==
    IF i > Len(st.H.steps[n]) THEN st
    ELSE LET d == Digest(st.H.tab, st.H.hash[n] \o st.H.hash[st.H.steps[n][i]])
         IN  OldSysLoop([st EXCEPT !.H.hash[n] = d.d, !.H.tab = d.tab], n, i + 1)

OldSysSetHash(st, n, prev) == OldSysLoop([st EXCEPT !.H.hash[n] = prev], n, 1)

\* sys.get_hash() of a slot, "" for an absent one
SlotHash(H, s) == IF s = None THEN <<>> ELSE H.hash[s]

\* Variant: the x/y stage replaces an empty running hash, as the pred/label
\* stage does.
XYStageSubstituting(st, n) ==
    LET sl == st.H.slots[n]
        xy_hash == SlotHash(st.H, sl.x_sys) \o SlotHash(st.H, sl.y_sys)
        d == Digest(st.H.tab, st.H.hash[n] \o xy_hash)
    IN  IF xy_hash # <<>>
        THEN IF st.H.hash[n] = <<>>
             THEN [st EXCEPT !.H.hash[n] = xy_hash]
             ELSE [st EXCEPT !.H.hash[n] = d.d, !.H.tab = d.tab]
        ELSE st

\* The x/y stage of Pipeline._set_hash
XYStage(st, n) ==
    LET sl == st.H.slots[n]
        xy_hash == SlotHash(st.H, sl.x_sys) \o SlotHash(st.H, sl.y_sys)
        d == Digest(st.H.tab, st.H.hash[n] \o xy_hash)
    IN  IF xy_hash # <<>>
        THEN [st EXCEPT !.H.hash[n] = d.d, !.H.tab = d.tab]
        ELSE st

\* Variant: train_sys is not re-hashed, its held hash is folded in.
TrainStageHeldHash(st, n, k) ==
    LET t == st.H.slots[n].train_sys
        d == Digest(st.H.tab, st.H.hash[n] \o SlotHash(st.H, t))
    IN  IF t # None /\ SlotHash(st.H, t) # <<>>
        THEN [st EXCEPT !.H.hash[n] = d.d, !.H.tab = d.tab]
        ELSE st

\* The train_sys stage of Pipeline._set_hash
TrainStage(st, n, k) ==
    LET t == st.H.slots[n].train_sys
        s1 == SetHash(st, t, st.H.hash[n], k)
        training_hash == s1.H.hash[t]
        d == Digest(s1.H.tab, s1.H.hash[n] \o training_hash)
    IN  IF t = None THEN st
        ELSE IF training_hash # <<>>
        THEN [s1 EXCEPT !.H.hash[n] = d.d, !.H.tab = d.tab]
        ELSE s1

\* The pred/label stage of Pipeline._set_hash
PredLabelStage(st, n) ==
    LET sl == st.H.slots[n]
        predlabel_hash == SlotHash(st.H, sl.pred_sys) \o SlotHash(st.H, sl.label_sys)
        d == Digest(st.H.tab, st.H.hash[n] \o predlabel_hash)
    IN  IF predlabel_hash # <<>>
        THEN IF st.H.hash[n] = <<>>
             THEN [st EXCEPT !.H.hash[n] = predlabel_hash]
             ELSE [st EXCEPT !.H.hash[n] = d.d, !.H.tab = d.tab]
        ELSE st

\* Pipeline._set_hash
PipelineSetHash(st, n, prev, k) ==
    PredLabelStage(TrainStage(XYStage([st EXCEPT !.H.hash[n] = prev], n), n, k), n)

\* node._set_hash(prev_hash), called by log entry `by` (0: by the caller)
SetHash(st, n, prev, by) ==
    LET s0 == Called(st, n, prev, by)
        k == Len(s0.log)
        kind == Kind(st.H.cls[n])
        s1 == IF kind \in {"block", "oldblock"} THEN BaseSetHash(s0, n, prev)
              ELSE IF kind = "oldsys" THEN OldSysSetHash(s0, n, prev)
              ELSE IF kind = "seq" THEN SeqSetHash(s0, n, prev, k)
              ELSE IF kind = "par" THEN ParSetHash(s0, n, prev, k)
              ELSE PipelineSetHash(s0, n, prev, k)
    IN  Returned(s1, n, k)

\* A hash computation started by the caller on heap H.
Run(H, n, prev) == SetHash([H |-> H, log |-> <<>>], n, prev, 0)

----------------------------------------------------------------------------
\* Construction

\* The heap with one more node, as the dataclass __init__ leaves it.
Alloc(H, c, ss, w, sl) ==
    [H EXCEPT !.cls = Append(@, c), !.parent = Append(@, None),
              !.children = Append(@, <<>>), !.steps = Append(@, ss),
              !.weights = Append(@, w), !.slots = Append(@, sl),
              !.hash = Append(@, <<>>)]

\* _Base.__post_init__ of a new node: self._set_hash("")
PostInit(H, c, ss, w, sl) == Run(Alloc(H, c, ss, w, sl), Len(H.cls) + 1, <<>>)

\* Variant: a step that has a parent keeps it.
RECURSIVE SetParentsIfNone(_, _, _, _)
SetParentsIfNone(par, l, i, n) ==
    IF i > Len(l) THEN par
    ELSE SetParentsIfNone(IF par[l[i]] = None THEN [par EXCEPT ![l[i]] = n] ELSE par,
                          l, i + 1, n)

\* for step in self.steps: step._set_parent(self)
RECURSIVE SetParents(_, _, _, _)
SetParents(par, l, i, n) ==
    IF i > Len(l) THEN par
    ELSE SetParents([par EXCEPT ![l[i]] = n], l, i + 1, n)

\* _Block()
MkBlock(H, c) == PostInit(H, c, <<>>, <<>>, NoSlots)

\* The step types each system's __post_init__ lets through.
AllowedAtInit(c, stepCls) ==
    CASE Super(c) = "TransformingSystem" ->
            Super(stepCls) \in {"Transformer", "TransformingSystem",
                                "ParallelTransformingSystem"}
      [] Super(c) = "ParallelTransformingSystem" ->
            Super(stepCls) \in {"Transformer", "TransformingSystem"}
      [] Super(c) = "TrainingSystem" -> Super(stepCls) \in {"Trainer", "TrainingSystem"}
      [] Super(c) = "ParallelTrainingSystem" ->
            Super(stepCls) \in {"Trainer", "TrainingSystem"}
      [] Super(c) = "RefiningSystem" -> Super(stepCls) = "Refiner"

ValidSteps(H, c, ss) == \A i \in 1..Len(ss) : AllowedAtInit(c, H.cls[ss[i]])

\* _SequentialSystem.__post_init__
MkSeq(H, c, ss) ==
    LET n == Len(H.cls) + 1
        st == PostInit(H, c, ss, <<>>, NoSlots)
    IN  [st EXCEPT !.H.parent = SetParents(@, ss, 1, n), !.H.children[n] = ss]

\* System.__post_init__ of the first layout: self._set_hash('')
MkOldSys(H, c, ss) == PostInit(H, c, ss, <<>>, NoSlots)

\* Variant: an unstable sort, a step going before the steps of its type name.
RECURSIVE InsertBeforeEqual(_, _, _)
InsertBeforeEqual(l, x, H) ==
    IF l = <<>> THEN <<x>>
    ELSE IF NameRank(H.cls[x]) <= NameRank(H.cls[l[Len(l)]])
         THEN Append(InsertBeforeEqual(SubSeq(l, 1, Len(l) - 1), x, H), l[Len(l)])
         ELSE Append(l, x)

\* sorted(self.steps, key=lambda x: x.__class__.__name__): stable
RECURSIVE Insert(_, _, _)
Insert(l, x, H) ==
    IF l = <<>> THEN <<x>>
    ELSE IF NameRank(H.cls[x]) < NameRank(H.cls[l[Len(l)]])
         THEN Append(Insert(SubSeq(l, 1, Len(l) - 1), x, H), l[Len(l)])
         ELSE Append(l, x)

RECURSIVE SortedFrom(_, _, _, _)
SortedFrom(l, i, acc, H) ==
    IF i > Len(l) THEN acc ELSE SortedFrom(l, i + 1, Insert(acc, l[i], H), H)

Sorted(l, H) == SortedFrom(l, 1, <<>>, H)

\* [1 / num_steps] * num_steps
EqualWeights(cnt) == [i \in 1..cnt |-> <<1, cnt>>]

\* _ParallelSystem.__post_init__ (no weights supplied)
MkPar(H, c, ss) ==
    LET n == Len(H.cls) + 1
        sorted == Sorted(ss, H)
        st == PostInit(H, c, sorted, <<>>, NoSlots)
    IN  [st EXCEPT !.H.parent = SetParents(@, sorted, 1, n),
                   !.H.weights[n] = EqualWeights(Len(sorted)),
                   !.H.children[n] = sorted]

PresentSlots(sl) ==
    SelectSeq(<<sl.x_sys, sl.y_sys, sl.train_sys, sl.pred_sys, sl.label_sys>>,
              LAMBDA s : s # None)

\* Pipeline.__post_init__
MkPipeline(H, sl) ==
    LET n == Len(H.cls) + 1
        st == PostInit(H, "Pipeline", <<>>, <<>>, sl)
        pres == PresentSlots(sl)
    IN  [st EXCEPT !.H.parent = SetParents(@, pres, 1, n), !.H.children[n] = pres]

----------------------------------------------------------------------------
\* transform / train / predict
\*
\* Values are records.  A user block returns a value that names the block,
\* the operation, the keyword arguments and the input it was given; a user
\* concat returns a value that names the system and both operands.  train
\* carries the pair [x, y].  A running computation is r = [log, out, err]:
\* the calls made so far, the current value and the exception being raised.

NoValue == [k |-> "none"]
NoError == [kind |-> "none", node |-> None]

Input(name) == [k |-> "in", name |-> name]
Pair(x, y) == [k |-> "pair", x |-> x, y |-> y]

\* A keyword-argument map; {} is the empty function.
EmptyArgs == <<>>

\* Variant: the caller's whole map is handed down.
GetWhole(args, name) == args

\* transform_args.get(name, {})
Get(args, name) == IF name \in DOMAIN args THEN args[name] ELSE EmptyArgs

\* Variant: every class has every operation.
ImplementsAll(c, op) == TRUE

\* The operations a class defines without raising NotImplementedError.
Implements(c, op) ==
    CASE c = "MyTransformer" -> op = "transform"
      [] c = "MyTrainer" -> op \in {"train", "predict"}
      [] c = "MyRefiner" -> op = "predict"
      [] c \in {"MyParallelTransformingSystem", "MyParallelTrainingSystem"} ->
            op = "concat"
      [] OTHER -> FALSE

\* What a user block returns.
BlockOut(n, op, in, args) ==
    IF op = "train"
    THEN Pair([k |-> "out", by |-> n, op |-> "train.x", args |-> args, in |-> in],
              [k |-> "out", by |-> n, op |-> "train.y", args |-> args, in |-> in])
    ELSE [k |-> "out", by |-> n, op |-> op, args |-> args, in |-> in]

\* raise NotImplementedError(f"{self.__class__.__name__} does not implement ...")
Abstract(n) == [kind |-> "NotImplementedError", node |-> n]

\* raise TypeError(f"{step} is not ...")
NotDispatched(step) == [kind |-> "TypeError", node |-> step]

\* The isinstance test a system's loop makes on a step before calling it.
Dispatches(c, stepCls) ==
    CASE Super(c) \in {"TransformingSystem", "ParallelTransformingSystem"} ->
            Super(stepCls) \in {"Transformer", "TransformingSystem",
                                "ParallelTransformingSystem"}
      [] Super(c) \in {"TrainingSystem", "ParallelTrainingSystem"} ->
            Super(stepCls) \in {"Trainer", "TrainingSystem",
                                "ParallelTrainingSystem", "Pipeline"}
      [] Super(c) = "RefiningSystem" -> Super(stepCls) = "Refiner"
      [] OTHER -> FALSE

Entered(r, n, op, in, args, by) ==
    [log |-> Append(r.log, [node |-> n, op |-> op, in |-> in, args |-> args,
                            by |-> by, out |-> NoValue, err |-> NoError]),
     out |-> in, err |-> NoError]

Left(r, k) == [r EXCEPT !.log[k].out = r.out, !.log[k].err = r.err]

Raised(r, e) == [r EXCEPT !.out = NoValue, !.err = e]

RECURSIVE Exec(_, _, _, _, _, _, _)
RECURSIVE SeqRun(_, _, _, _, _, _, _)
RECURSIVE ParRun(_, _, _, _, _, _, _)

\* self.concat(a, b) / self.concat_labels(a, b) of parallel system n, called
\* by call k; the default concat_labels calls concat.
Concat(r, H, n, op, a, b, k) ==
    LET r0 == Entered(r, n, op, Pair(a, b), EmptyArgs, k)
        j == Len(r0.log)
        r1 == IF Implements(H.cls[n], "concat")
              THEN [r0 EXCEPT !.out = [k |-> "cat", by |-> n, l |-> a, r |-> b]]
              ELSE Raised(r0, Abstract(n))
        r2 == IF op = "concat" THEN r1
              ELSE LET c0 == Entered(r0, n, "concat", Pair(a, b), EmptyArgs, j)
                       c1 == IF Implements(H.cls[n], "concat")
                             THEN [c0 EXCEPT !.out = [k |-> "cat", by |-> n,
                                                      l |-> a, r |-> b]]
                             ELSE Raised(c0, Abstract(n))
                   IN  Left(c1, Len(c0.log))
    IN  Left(r2, j)

\* Variant: every step is given the input of the system.
RECURSIVE SeqRunSameInput(_, _, _, _, _, _, _)
SeqRunSameInput(r, H, n, op, i, args, k) ==
    IF r.err # NoError \/ i > Len(H.steps[n]) THEN r
    ELSE LET step == H.steps[n][i]
             step_args == IF Super(H.cls[n]) = "RefiningSystem" THEN EmptyArgs
                          ELSE Get(args, H.cls[step])
         IN  IF Dispatches(H.cls[n], H.cls[step])
             THEN SeqRunSameInput(Exec(r, H, step, op, r.log[k].in, step_args, k),
                                  H, n, op, i + 1, args, k)
             ELSE Raised(r, NotDispatched(step))

\* The loop of a sequential system's transform / train / predict, from
\* step i on; r.out is the running value.
SeqRun(r, H, n, op, i, args, k) ==
    IF r.err # NoError \/ i > Len(H.steps[n]) THEN r
    ELSE LET step == H.steps[n][i]
             step_args == IF Super(H.cls[n]) = "RefiningSystem" THEN EmptyArgs
                          ELSE Get(args, H.cls[step])
         IN  IF Dispatches(H.cls[n], H.cls[step])
             THEN SeqRun(Exec(r, H, step, op, r.out, step_args, k),
                         H, n, op, i + 1, args, k)
             ELSE Raised(r, NotDispatched(step))

\* Variant: a right fold, the new output going first.
AccumulateSwapped(r, H, n, op, i, acc, k) ==
    IF r.err # NoError \/ i = 1 THEN r
    ELSE IF op = "train"
    THEN LET cx == Concat(r, H, n, "concat", r.out.x, acc.x, k)
             cy == Concat(cx, H, n, "concat_labels", r.out.y, acc.y, k)
         IN  IF cx.err # NoError THEN cx
             ELSE IF cy.err # NoError THEN cy
             ELSE [cy EXCEPT !.out = Pair(cx.out, cy.out)]
    ELSE Concat(r, H, n, "concat", r.out, acc, k)

\* The accumulator after step i returned `new`: the first step's output
\* seeds it, a later one is concatenated to it.
Accumulate(r, H, n, op, i, acc, k) ==
    IF r.err # NoError \/ i = 1 THEN r
    ELSE IF op = "train"
    THEN LET cx == Concat(r, H, n, "concat", acc.x, r.out.x, k)
             cy == Concat(cx, H, n, "concat_labels", acc.y, r.out.y, k)
         IN  IF cx.err # NoError THEN cx
             ELSE IF cy.err # NoError THEN cy
             ELSE [cy EXCEPT !.out = Pair(cx.out, cy.out)]
    ELSE Concat(r, H, n, "concat", acc, r.out, k)

\* Variant: a step that is not dispatched is passed over.
RECURSIVE ParRunSkipping(_, _, _, _, _, _, _)
ParRunSkipping(r, H, n, op, i, args, k) ==
    IF r.err # NoError \/ i > Len(H.steps[n]) THEN r
    ELSE LET step == H.steps[n][i]
             step_args == Get(args, H.cls[step])
         IN  IF Dispatches(H.cls[n], H.cls[step])
             THEN LET e == Exec(r, H, step, op, r.out, step_args, k)
                  IN  ParRunSkipping(Accumulate(e, H, n, op, i, r.out, k),
                                     H, n, op, i + 1, args, k)
             ELSE ParRunSkipping(r, H, n, op, i + 1, args, k)

\* The loop of a parallel system's transform / train / predict, from step
\* i on; r.out is the accumulator, which is also what the step is given.
ParRun(r, H, n, op, i, args, k) ==
    IF r.err # NoError \/ i > Len(H.steps[n]) THEN r
    ELSE LET step == H.steps[n][i]
             step_args == Get(args, H.cls[step])
         IN  IF Dispatches(H.cls[n], H.cls[step])
             THEN LET e == Exec(r, H, step, op, r.out, step_args, k)
                  IN  ParRun(Accumulate(e, H, n, op, i, r.out, k),
                             H, n, op, i + 1, args, k)
             ELSE Raised(r, NotDispatched(step))

\* One stage of Pipeline.train / Pipeline.predict: slot `name` applied with
\* operation op to the x or the y of the running pair.
Stage(r, H, n, name, op, on, args, k) ==
    LET sys == H.slots[n][name]
    IN  IF r.err # NoError \/ sys = None THEN r
        ELSE IF op = "train"
        THEN Exec(r, H, sys, "train", r.out, Get(args, name), k)
        ELSE LET cur == r.out
                 e == Exec(r, H, sys, op, IF on = "x" THEN cur.x ELSE cur.y,
                           Get(args, name), k)
             IN  IF e.err # NoError THEN e
                 ELSE [e EXCEPT !.out = IF on = "x" THEN Pair(e.out, cur.y)
                                        ELSE Pair(cur.x, e.out)]

\* Variant: the labels are transformed before the data.
PipelineTrainLabelsFirst(r, H, n, args, k) ==
    LET s1 == Stage(r, H, n, "y_sys", "transform", "y", args, k)
        s2 == Stage(s1, H, n, "x_sys", "transform", "x", args, k)
        s3 == Stage(s2, H, n, "train_sys", "train", "xy", args, k)
        s4 == Stage(s3, H, n, "pred_sys", "transform", "x", args, k)
    IN  Stage(s4, H, n, "label_sys", "transform", "y", args, k)

\* Pipeline.train
PipelineTrain(r, H, n, args, k) ==
    LET s1 == Stage(r, H, n, "x_sys", "transform", "x", args, k)
        s2 == Stage(s1, H, n, "y_sys", "transform", "y", args, k)
        s3 == Stage(s2, H, n, "train_sys", "train", "xy", args, k)
        s4 == Stage(s3, H, n, "pred_sys", "transform", "x", args, k)
    IN  Stage(s4, H, n, "label_sys", "transform", "y", args, k)

\* Variant: the label stage runs in predict as well.
PipelinePredictWithLabels(r, H, n, args, k) ==
    LET r0 == [r EXCEPT !.out = Pair(r.out, NoValue)]
        s1 == Stage(r0, H, n, "x_sys", "transform", "x", args, k)
        s2 == Stage(s1, H, n, "train_sys", "predict", "x", args, k)
        s3 == Stage(s2, H, n, "pred_sys", "transform", "x", args, k)
        s4 == Stage(s3, H, n, "label_sys", "transform", "y", args, k)
    IN  IF s4.err # NoError THEN s4 ELSE [s4 EXCEPT !.out = s4.out.x]

\* Pipeline.predict; the running value is carried as the x of a pair.
PipelinePredict(r, H, n, args, k) ==
    LET r0 == [r EXCEPT !.out = Pair(r.out, NoValue)]
        s1 == Stage(r0, H, n, "x_sys", "transform", "x", args, k)
        s2 == Stage(s1, H, n, "train_sys", "predict", "x", args, k)
        s3 == Stage(s2, H, n, "pred_sys", "transform", "x", args, k)
    IN  IF s3.err # NoError THEN s3 ELSE [s3 EXCEPT !.out = s3.out.x]

\* node.transform / node.train / node.predict, called by call `by` of the
\* log (0: by the caller) with input `in` and keyword arguments args.
Exec(r, H, n, op, in, args, by) ==
    LET r0 == Entered(r, n, op, in, args, by)
        k == Len(r0.log)
        kind == Kind(H.cls[n])
        r1 == IF kind \in {"block", "oldblock"}
              THEN IF Implements(H.cls[n], op)
                   THEN [r0 EXCEPT !.out = BlockOut(n, op, in, args)]
                   ELSE Raised(r0, Abstract(n))
              ELSE IF kind \in {"seq", "oldsys"} THEN SeqRun(r0, H, n, op, 1, args, k)
              ELSE IF kind = "par" THEN ParRun(r0, H, n, op, 1, args, k)
              ELSE IF op = "train" THEN PipelineTrain(r0, H, n, args, k)
              ELSE PipelinePredict(r0, H, n, args, k)
    IN  Left(r1, k)

\* The operations a class has.
HasOp(c, op) ==
    CASE Super(c) \in {"Transformer", "TransformingSystem", "ParallelTransformingSystem"} ->
            op = "transform"
      [] Super(c) \in {"Trainer", "TrainingSystem", "ParallelTrainingSystem", "Pipeline"} ->
            op \in {"train", "predict"}
      [] OTHER -> op = "predict"

\* A call made from outside on heap H.
Call(H, n, op, in, args) == Exec([log |-> <<>>, out |-> in, err |-> NoError],
                                 H, n, op, in, args, 0)

----------------------------------------------------------------------------
\* Driver scripts: a tree built bottom-up from nodes constructed for it, as in
\* Pipeline(x_sys=TransformingSystem(steps=[Transformer()]), ...).
\* A shape is [cls, kids]; Absent is the shape of an empty Pipeline slot.

Absent == [cls |-> "None", kids |-> <<>>]

Leaf(c) == [cls |-> c, kids |-> <<>>]

StepShapes == {Leaf(c) : c \in BlockClasses \cup SeqClasses}

ShapeLists == UNION {[1..l -> StepShapes] : l \in 0..MaxSteps}

SystemShapes ==
    {[cls |-> c, kids |-> ks] : c \in SeqClasses \cup ParClasses, ks \in ShapeLists}

ValidShape(s) == \A i \in 1..Len(s.kids) : AllowedAtInit(s.cls, s.kids[i].cls)

XSlotShapes ==
    {Absent, Leaf("TransformingSystem"),
     [cls |-> "TransformingSystem", kids |-> <<Leaf("Transformer")>>]}

TrainSlotShapes ==
    {Absent, Leaf("TrainingSystem"),
     [cls |-> "TrainingSystem", kids |-> <<Leaf("Trainer")>>]}

PipelineShapes ==
    {[cls |-> "Pipeline", kids |-> <<x, y, t, p, l>>] :
        x \in XSlotShapes, y \in XSlotShapes, t \in TrainSlotShapes,
        p \in XSlotShapes, l \in XSlotShapes}

Shapes == {s \in StepShapes \cup SystemShapes : ValidShape(s)} \cup PipelineShapes

RECURSIVE ShapeSize(_)
RECURSIVE KidsSize(_, _)
KidsSize(ks, i) == IF i > Len(ks) THEN 0 ELSE ShapeSize(ks[i]) + KidsSize(ks, i + 1)
ShapeSize(s) == IF s = Absent THEN 0 ELSE 1 + KidsSize(s.kids, 1)

RECURSIVE BuildShape(_, _)
RECURSIVE BuildKids(_, _, _, _)

\* The kids from i on, built left to right; roots collects the nodes (None
\* for an absent slot).
BuildKids(H, ks, i, roots) ==
    IF i > Len(ks) THEN [H |-> H, roots |-> roots]
    ELSE IF ks[i] = Absent THEN BuildKids(H, ks, i + 1, Append(roots, None))
    ELSE CHOOSE r \in {BuildKids(b.H, ks, i + 1, Append(roots, Len(b.H.cls))) :
                          b \in {BuildShape(H, ks[i])}} : TRUE

\* The constructor calls that build shape s; the new root is the last node.
BuildRoot(b, s) ==
    LET k == Kind(s.cls)
    IN  IF k \in {"block", "oldblock"} THEN MkBlock(b.H, s.cls)
        ELSE IF k = "oldsys" THEN MkOldSys(b.H, s.cls, b.roots)
        ELSE IF k = "seq" THEN MkSeq(b.H, s.cls, b.roots)
        ELSE IF k = "par" THEN MkPar(b.H, s.cls, b.roots)
        ELSE MkPipeline(b.H, [x_sys |-> b.roots[1], y_sys |-> b.roots[2],
                              train_sys |-> b.roots[3], pred_sys |-> b.roots[4],
                              label_sys |-> b.roots[5]])

BuildShape(H, s) ==
    CHOOSE r \in {BuildRoot(b, s) : b \in {BuildKids(H, s.kids, 1, <<>>)}} : TRUE

----------------------------------------------------------------------------
\* Actions

Commit(st, op, n, arg, prev) ==
    /\ cls' = st.H.cls
    /\ parent' = st.H.parent
    /\ children' = st.H.children
    /\ steps' = st.H.steps
    /\ weights' = st.H.weights
    /\ slots' = st.H.slots
    /\ hash' = st.H.hash
    /\ digests' = st.H.tab
    /\ last' = [op |-> op, node |-> n, arg |-> arg, prev |-> prev, log |-> st.log]

StepLists == UNION {[1..l -> Nodes] : l \in 0..MaxSteps}

NewBlock(c) ==
    /\ Len(cls) < MaxNodes
    /\ Commit(MkBlock(Heap, c), "NewBlock", Len(cls) + 1, <<>>, <<>>)
    /\ UNCHANGED <<rehashes, built>>

NewSeq(c, ss) ==
    /\ Len(cls) < MaxNodes
    /\ ValidSteps(Heap, c, ss)
    /\ Commit(MkSeq(Heap, c, ss), "NewSeq", Len(cls) + 1, ss, <<>>)
    /\ UNCHANGED <<rehashes, built>>

NewPar(c, ss) ==
    /\ Len(cls) < MaxNodes
    /\ ValidSteps(Heap, c, ss)
    /\ Commit(MkPar(Heap, c, ss), "NewPar", Len(cls) + 1, ss, <<>>)
    /\ UNCHANGED <<rehashes, built>>

\* node._set_hash(prev_hash) invoked by the caller on an existing node
Rehash(n, prev) ==
    /\ rehashes < MaxRehash
    /\ rehashes' = rehashes + 1
    /\ Commit(Run(Heap, n, prev), "Rehash", n, <<>>, prev)
    /\ built' = [i \in 1..Len(built) |->
                    [built[i] EXCEPT !.fresh = @ /\ ~(n \in built[i].lo..built[i].root)]]

PrevChoices == {<<>>} \cup {hash[m] : m \in Nodes}

\* A driver script building a tree of fresh nodes
Build(s) ==
    /\ Len(built) + rehashes < MaxScript
    /\ Len(cls) + ShapeSize(s) <= MaxBuildNodes
    /\ LET st == BuildShape(Heap, s)
           root == Len(st.H.cls)
       IN  /\ Commit(st, "Build", root, <<>>, <<>>)
           /\ built' = Append(built, [shape |-> s, lo |-> Len(cls) + 1,
                                      root |-> root, fresh |-> TRUE])
    /\ UNCHANGED rehashes

----------------------------------------------------------------------------

Init ==
    /\ cls = <<>>
    /\ parent = <<>>
    /\ children = <<>>
    /\ steps = <<>>
    /\ weights = <<>>
    /\ slots = <<>>
    /\ hash = <<>>
    /\ digests = <<>>
    /\ rehashes = 0
    /\ built = <<>>
    /\ last = [op |-> "Init", node |-> None, arg |-> <<>>, prev |-> <<>>, log |-> <<>>]

\* Single constructor calls over existing nodes, and explicit re-hashing.
Next ==
    \/ \E c \in BlockClasses : NewBlock(c)
    \/ \E c \in SeqClasses, ss \in StepLists : NewSeq(c, ss)
    \/ \E c \in ParClasses, ss \in StepLists : NewPar(c, ss)
    \/ \E n \in Nodes, prev \in PrevChoices : Rehash(n, prev)

Spec == Init /\ [][Next]_vars

----------------------------------------------------------------------------
\* Composition over existing nodes: blocks, sequential systems, parallel
\* systems with weights and pipelines, a node being free to appear in
\* several composites.

ComposeBlocks == {"Transformer", "Trainer"}

\* Fractions <<num, den>> in lowest terms.
RECURSIVE Gcd(_, _)
Gcd(a, b) == IF b = 0 THEN a ELSE Gcd(b, a % b)

Frac(a, b) == <<a \div Gcd(a, b), b \div Gcd(a, b)>>

FracAdd(p, q) == Frac(p[1] * q[2] + q[1] * p[2], p[2] * q[2])

\* sum(self.weights)
RECURSIVE Sum(_, _)
Sum(w, i) == IF i > Len(w) THEN 0 ELSE w[i] + Sum(w, i + 1)

\* The weights as the caller gave them, as fractions.
Supplied(w) == [i \in 1..Len(w) |-> <<w[i], 1>>]

\* Variant: the weights are divided by their number.
NormalizedByCount(w) == [i \in 1..Len(w) |-> Frac(w[i], Len(w))]

\* [w / sum(self.weights) for w in self.weights]
Normalized(w) == [i \in 1..Len(w) |-> Frac(w[i], Sum(w, 1))]

\* _ParallelSystem.__post_init__ with weights supplied: the steps are
\* sorted, the hash is set, the steps are linked, and then the weights are
\* normalised or replaced by equal ones; a division by zero leaves the
\* object as it is at that point.
MkParWeighted(H, c, ss, w) ==
    LET n == Len(H.cls) + 1
        sorted == Sorted(ss, H)
        st == PostInit(H, c, sorted, Supplied(w), NoSlots)
        linked == [st EXCEPT !.H.parent = SetParents(@, sorted, 1, n)]
        zero == IF Len(w) = Len(sorted)
                THEN Len(w) > 0 /\ Sum(w, 1) = 0
                ELSE Len(sorted) = 0
        stored == IF Len(w) = Len(sorted) THEN Normalized(w)
                  ELSE EqualWeights(Len(sorted))
    IN  IF zero
        THEN [H |-> linked.H, log |-> linked.log,
              err |-> [kind |-> "ZeroDivisionError", node |-> n]]
        ELSE [H |-> [linked.H EXCEPT !.weights[n] = stored, !.children[n] = sorted],
              log |-> linked.log, err |-> NoError]


WeightLists == UNION {[1..l -> 0..MaxWeight] : l \in 0..MaxSteps}

NewParWeighted(c, ss, w) ==
    /\ Len(cls) < MaxComposeNodes
    /\ ValidSteps(Heap, c, ss)
    /\ LET r == MkParWeighted(Heap, c, ss, w)
       IN  /\ cls' = r.H.cls
           /\ parent' = r.H.parent
           /\ children' = r.H.children
           /\ steps' = r.H.steps
           /\ weights' = r.H.weights
           /\ slots' = r.H.slots
           /\ hash' = r.H.hash
           /\ digests' = r.H.tab
           /\ last' = [op |-> "NewParWeighted", node |-> Len(cls) + 1, arg |-> ss,
                       prev |-> <<>>, log |-> r.log, err |-> r.err, w |-> w]
    /\ UNCHANGED <<rehashes, built>>

\* The nodes a Pipeline slot may hold: None or a system of the slot's family.
SlotChoices(name) ==
    {None} \cup {n \in Nodes :
                   /\ Kind(cls[n]) \in {"seq", "par"}
                   /\ (Super(cls[n]) \in {"TrainingSystem", "ParallelTrainingSystem"})
                      <=> (name = "train_sys")}

NewPipeline(sl) ==
    /\ Len(cls) < MaxComposeNodes
    /\ \A i \in 1..Len(SlotNames) : sl[SlotNames[i]] \in SlotChoices(SlotNames[i])
    /\ Commit(MkPipeline(Heap, sl), "NewPipeline", Len(cls) + 1, sl, <<>>)
    /\ UNCHANGED <<rehashes, built>>

ComposeBlock(c) == Len(cls) < MaxComposeNodes /\ NewBlock(c)

ComposeSeq(c, ss) == Len(cls) < MaxComposeNodes /\ NewSeq(c, ss)

NextCompose ==
    \/ \E c \in ComposeBlocks : ComposeBlock(c)
    \/ \E c \in SeqClasses, ss \in StepLists : ComposeSeq(c, ss)
    \/ \E c \in ParClasses, ss \in StepLists, w \in WeightLists : NewParWeighted(c, ss, w)
    \/ \E sl \in [x_sys : {None} \cup Nodes, y_sys : {None} \cup Nodes,
                   train_sys : {None} \cup Nodes, pred_sys : {None} \cup Nodes,
                   label_sys : {None} \cup Nodes] : NewPipeline(sl)

SpecCompose == Init /\ [][NextCompose]_vars

----------------------------------------------------------------------------
\* Running systems: one tree is built, a system's steps may be replaced or
\* a constructor called on its nodes, and the tree is run.

RunLeaves(family) ==
    CASE family = "transform" -> {Leaf("MyTransformer"), Leaf("Transformer")}
      [] family = "train" -> {Leaf("MyTrainer"), Leaf("Trainer")}
      [] family = "refine" -> {Leaf("MyRefiner"), Leaf("Refiner")}

RunSystems(family) ==
    CASE family = "transform" ->
            {"TransformingSystem", "ParallelTransformingSystem",
             "MyParallelTransformingSystem"}
      [] family = "train" ->
            {"TrainingSystem", "ParallelTrainingSystem", "MyParallelTrainingSystem"}
      [] family = "refine" -> {"RefiningSystem"}

Families == {"transform", "train", "refine"}

ListsOf(S, lo, hi) == UNION {[1..l -> S] : l \in lo..hi}

\* Systems of up to MaxRunSteps blocks.
FlatShapes ==
    UNION {{[cls |-> c, kids |-> ks] :
               c \in RunSystems(f), ks \in ListsOf(RunLeaves(f), 0, MaxRunSteps)} :
           f \in Families}

Sys(c, ks) == [cls |-> c, kids |-> ks]

\* Nested systems, as steps of an outer system.
InnerShapes(family) ==
    CASE family = "transform" ->
            {Leaf("MyTransformer"),
             Sys("TransformingSystem", <<Leaf("MyTransformer")>>),
             Sys("TransformingSystem",
                 <<Sys("TransformingSystem", <<Leaf("MyTransformer")>>)>>)}
      [] family = "train" ->
            {Leaf("MyTrainer"),
             Sys("TrainingSystem", <<Leaf("MyTrainer")>>),
             Sys("TrainingSystem",
                 <<Sys("TrainingSystem", <<Leaf("MyTrainer")>>)>>)}
      [] family = "refine" -> {}

NestedShapes ==
    UNION {{Sys(c, ks) : c \in RunSystems(f), ks \in ListsOf(InnerShapes(f), 1, 2)} :
           f \in Families}

RunSlotShapes(family) ==
    IF family = "transform"
    THEN {Absent, Sys("TransformingSystem", <<Leaf("MyTransformer")>>)}
    ELSE {Absent, Sys("TrainingSystem", <<Leaf("MyTrainer")>>)}

RunPipelines ==
    {[cls |-> "Pipeline", kids |-> <<x, y, t, p, l>>] :
        x \in RunSlotShapes("transform"), y \in RunSlotShapes("transform"),
        t \in RunSlotShapes("train"),
        p \in RunSlotShapes("transform"), l \in RunSlotShapes("transform")}

RunShapes ==
    {s \in FlatShapes \cup NestedShapes : ValidShape(s)}
    \cup UNION {RunLeaves(f) : f \in Families} \cup RunPipelines

\* Keyword arguments a caller passes.
Kw(v) == [multiplier |-> v]

RunArgs ==
    {EmptyArgs,
     [MyTransformer |-> Kw("2"), MyTrainer |-> Kw("2")],
     [TransformingSystem |-> [MyTransformer |-> Kw("3")], MyTransformer |-> Kw("2"),
      TrainingSystem |-> [MyTrainer |-> Kw("3")], MyTrainer |-> Kw("2")],
     [TransformingSystem |-> [TransformingSystem |-> [MyTransformer |-> Kw("3")]],
      TrainingSystem |-> [TrainingSystem |-> [MyTrainer |-> Kw("3")]]],
     [x_sys |-> [MyTransformer |-> Kw("2")], train_sys |-> [MyTrainer |-> Kw("3")],
      pred_sys |-> [MyTransformer |-> Kw("3")]]}

BuildRun(s) == built = <<>> /\ Build(s)

\* Node a is b or contains b.
RECURSIVE Reaches(_, _, _)
Reaches(H, a, b) ==
    \/ a = b
    \/ \E i \in 1..Len(H.steps[a]) : Reaches(H, H.steps[a][i], b)
    \/ \E i \in 1..Len(SlotNames) :
          /\ H.slots[a][SlotNames[i]] # None
          /\ Reaches(H, H.slots[a][SlotNames[i]], b)

IsSystem(c) == Kind(c) \in {"seq", "par", "oldsys"}

Ran == last.op \in {"transform", "train", "predict"}

Runnable == last.op \in {"Build", "Replace", "ReplaceSlot"}

\* c() called beside the tree: a block that belongs to no system
NewLoneBlock(c) ==
    /\ last.op = "Build"
    /\ Len(cls) <= MaxLoneNodes
    /\ LET st == MkBlock(Heap, c)
       IN  /\ cls' = st.H.cls
           /\ parent' = st.H.parent
           /\ children' = st.H.children
           /\ steps' = st.H.steps
           /\ weights' = st.H.weights
           /\ slots' = st.H.slots
           /\ hash' = st.H.hash
           /\ digests' = st.H.tab
           /\ last' = [op |-> "NewLoneBlock", node |-> Len(cls) + 1, arg |-> c,
                       prev |-> <<>>, log |-> st.log]
    /\ UNCHANGED <<rehashes, built>>

\* Variant: assigning steps links the new steps as the constructor does.
ReplaceRelinking(n, ss) ==
    /\ last.op \in {"Build", "NewLoneBlock"}
    /\ Len(cls) <= MaxReplaceNodes
    /\ IsSystem(cls[n])
    /\ \A i \in 1..Len(ss) : ~Reaches(Heap, ss[i], n)
    /\ steps' = [steps EXCEPT ![n] = ss]
    /\ children' = [children EXCEPT ![n] = ss]
    /\ parent' = SetParents(parent, ss, 1, n)
    /\ last' = [op |-> "Replace", node |-> n, arg |-> ss, prev |-> <<>>, log |-> <<>>]
    /\ built' = [i \in 1..Len(built) |-> [built[i] EXCEPT !.fresh = FALSE]]
    /\ UNCHANGED <<cls, weights, slots, hash, digests, rehashes>>

\* system.steps = ss, after construction
Replace(n, ss) ==
    /\ last.op \in {"Build", "NewLoneBlock"}
    /\ Len(cls) <= MaxReplaceNodes
    /\ IsSystem(cls[n])
    /\ \A i \in 1..Len(ss) : ~Reaches(Heap, ss[i], n)
    /\ steps' = [steps EXCEPT ![n] = ss]
    /\ last' = [op |-> "Replace", node |-> n, arg |-> ss, prev |-> <<>>, log |-> <<>>]
    /\ built' = [i \in 1..Len(built) |-> [built[i] EXCEPT !.fresh = FALSE]]
    /\ UNCHANGED <<cls, parent, children, weights, slots, hash, digests, rehashes>>

\* pipeline.<slot> = v, after construction: None or a system of the slot's
\* family
ReplaceSlot(n, name, v) ==
    /\ last.op = "Build"
    /\ Len(cls) <= MaxReplaceNodes
    /\ cls[n] = "Pipeline"
    /\ v \in SlotChoices(name)
    /\ v # slots[n][name]
    /\ v # None => ~Reaches(Heap, v, n)
    /\ slots' = [slots EXCEPT ![n][name] = v]
    /\ last' = [op |-> "ReplaceSlot", node |-> n, arg |-> <<name, v>>, prev |-> <<>>,
                log |-> <<>>]
    /\ built' = [i \in 1..Len(built) |-> [built[i] EXCEPT !.fresh = FALSE]]
    /\ UNCHANGED <<cls, parent, children, steps, weights, hash, digests, rehashes>>

\* A constructor call that raised: the new object is dropped.
Failed(H, e) == [H |-> H, log |-> <<>>, err |-> e]

\* __post_init__ of a system class: the type checks, then the core
\* __post_init__.  TransformingSystem raises TypeError, the others assert.
Construct(H, c, ss) ==
    IF \E i \in 1..Len(ss) : ~AllowedAtInit(c, H.cls[ss[i]])
    THEN LET i == CHOOSE j \in 1..Len(ss) :
                     /\ ~AllowedAtInit(c, H.cls[ss[j]])
                     /\ \A l \in 1..(j - 1) : AllowedAtInit(c, H.cls[ss[l]])
         IN  Failed(H, [kind |-> IF Super(c) = "TransformingSystem"
                                 THEN "TypeError" ELSE "AssertionError",
                        node |-> ss[i]])
    ELSE LET st == IF Kind(c) = "seq" THEN MkSeq(H, c, ss)
                   ELSE IF Kind(c) = "par" THEN MkPar(H, c, ss)
                   ELSE MkOldSys(H, c, ss)
         IN  [H |-> st.H, log |-> st.log, err |-> NoError]

\* cls(steps=ss) called on nodes of the tree
New(c, ss) ==
    /\ last.op = "Build"
    /\ Len(cls) <= MaxWrapNodes
    /\ LET r == Construct(Heap, c, ss)
       IN  /\ cls' = r.H.cls
           /\ parent' = r.H.parent
           /\ children' = r.H.children
           /\ steps' = r.H.steps
           /\ weights' = r.H.weights
           /\ slots' = r.H.slots
           /\ hash' = r.H.hash
           /\ digests' = r.H.tab
           /\ last' = [op |-> "New", node |-> Len(cls) + 1, arg |-> ss, prev |-> <<>>,
                       log |-> r.log, err |-> r.err, class |-> c]
    /\ built' = [i \in 1..Len(built) |-> [built[i] EXCEPT !.fresh = FALSE]]
    /\ UNCHANGED rehashes

\* root.transform(x) / root.train(x, y) / root.predict(x)
RunOp(op, args) ==
    /\ Runnable
    /\ HasOp(cls[built[1].root], op)
    /\ LET n == built[1].root
           in == IF op = "train" THEN Pair(Input("x"), Input("y")) ELSE Input("x")
           r == Call(Heap, n, op, in, args)
       IN  last' = [op |-> op, node |-> n, arg |-> args, prev |-> <<>>,
                    log |-> r.log, out |-> r.out, err |-> r.err, in |-> in]
    /\ UNCHANGED <<cls, parent, children, steps, weights, slots, hash, digests,
                   rehashes, built>>

Transform(args) == RunOp("transform", args)
Train(args) == RunOp("train", args)
Predict(args) == RunOp("predict", args)

NextRun ==
    \/ \E s \in RunShapes : BuildRun(s)
    \/ \E c \in {"MyTransformer", "MyTrainer"} : NewLoneBlock(c)
    \/ \E n \in Nodes, ss \in ListsOf(Nodes, 1, MaxNewSteps) : Replace(n, ss)
    \/ \E n \in Nodes, i \in 1..Len(SlotNames), v \in {None} \cup Nodes :
          ReplaceSlot(n, SlotNames[i], v)
    \/ \E c \in UNION {RunSystems(f) : f \in Families},
          ss \in ListsOf(Nodes, 1, MaxNewSteps) : New(c, ss)
    \/ \E args \in RunArgs : Transform(args)
    \/ \E args \in RunArgs : Train(args)
    \/ \E args \in RunArgs : Predict(args)

SpecRun == Init /\ [][NextRun]_vars

\* Whole trees built from fresh nodes, and explicit re-hashing of their roots.
NextBuild ==
    \/ \E s \in Shapes : Build(s)
    \/ \E i \in 1..Len(built), prev \in {<<>>, <<"prev">>} :
          Len(built) + rehashes < MaxScript /\ Rehash(built[i].root, prev)

SpecBuild == Init /\ [][NextBuild]_vars

----------------------------------------------------------------------------
\* Reading the record of the last operation

\* The calls made by call k of the log, in the order they were made.
CallsOf(log, k) ==
    SelectSeq([i \in 1..Len(log) |-> i], LAMBDA j : log[j].by = k)

\* d is hash(s) for a string s that has been digested.
IsDigestOf(d, s) ==
    \E i \in 1..Len(digests) : digests[i] = s /\ d = <<DigestToken(i)>>

RECURSIVE ConcatRes(_, _, _)
ConcatRes(log, ks, i) ==
    IF i > Len(ks) THEN <<>> ELSE log[ks[i]].res \o ConcatRes(log, ks, i + 1)

\* A hash computation on heap H that continues the digest table of run r, so
\* that the digests of the two runs can be compared.
RunAfter(r, H, n, prev) == Run([H EXCEPT !.tab = r.H.tab], n, prev)

Hashed == last.op \in {"NewBlock", "NewSeq", "NewPar", "Rehash", "Build"}

----------------------------------------------------------------------------
\* Claims

\* Call k of the log, made on a sequential system, threads prev_hash through
\* the steps in list order and leaves the last step's hash.
SeqCallThreads(log, k) ==
    LET n == log[k].node
        ks == CallsOf(log, k)
    IN  /\ Len(ks) = Len(steps[n])
        /\ \A i \in 1..Len(ks) :
              /\ log[ks[i]].node = steps[n][i]
              /\ log[ks[i]].prev = IF i = 1 THEN log[k].prev ELSE log[ks[i - 1]].res
        /\ log[k].res = IF ks = <<>> THEN log[k].prev ELSE log[ks[Len(ks)]].res

\* C1: hashing a sequential composite against prev_hash hashes the first step
\* against prev_hash and every later step against the hash just produced for
\* the step before it, in list order; the composite's hash is then its last
\* step's hash, and with no steps it is prev_hash.
C1_SequentialThreading ==
    /\ \A k \in 1..Len(last.log) :
          Kind(cls[last.log[k].node]) = "seq" => SeqCallThreads(last.log, k)
    /\ (Hashed /\ Kind(cls[last.node]) = "seq") =>
          hash[last.node] =
             IF steps[last.node] = <<>> THEN last.prev
             ELSE hash[steps[last.node][Len(steps[last.node])]]

\* A sequential system of two steps has just been hashed, the second step
\* against the first step's new hash.
C1_Witness ==
    /\ last.op = "NewSeq"
    /\ Len(steps[last.node]) = 2
    /\ Len(last.log) = 3
    /\ last.log[2].res # <<>>
    /\ last.log[3].prev = last.log[2].res
    /\ hash[last.node] = last.log[3].res

\* Call k of the log, made on a parallel system: every step is hashed
\* against the same prev_hash, in stored order, and the result is prev_hash
\* (no step), the step's hash (one step) or the digest of prev_hash followed
\* by the step hashes.
ParCallCombines(log, k) ==
    LET n == log[k].node
        ks == CallsOf(log, k)
    IN  /\ Len(ks) = Len(steps[n])
        /\ \A i \in 1..Len(ks) :
              /\ log[ks[i]].node = steps[n][i]
              /\ log[ks[i]].prev = log[k].prev
        /\ Len(ks) = 0 => log[k].res = log[k].prev
        /\ Len(ks) = 1 => log[k].res = log[ks[1]].res
        /\ Len(ks) >= 2 => IsDigestOf(log[k].res, log[k].prev \o ConcatRes(log, ks, 1))

\* C2: hashing a parallel composite against prev_hash gives prev_hash with no
\* steps, the step's hash against prev_hash with one step, and with two or
\* more steps digest(prev_hash + h1 + ... + hn), hi being step i's hash
\* against prev_hash, in stored order.
C2_ParallelCombination ==
    /\ \A k \in 1..Len(last.log) :
          Kind(cls[last.log[k].node]) = "par" => ParCallCombines(last.log, k)
    /\ (Hashed /\ Kind(cls[last.node]) = "par") => hash[last.node] = last.log[1].res

\* A parallel system of two distinct steps has just been hashed.
C2_Witness ==
    /\ last.op = "NewPar"
    /\ Len(steps[last.node]) = 2
    /\ steps[last.node][1] # steps[last.node][2]
    /\ Len(last.log) = 3
    /\ IsDigestOf(hash[last.node], last.log[2].res \o last.log[3].res)

\* C3: hashing a node twice in a row with the same prev_hash, its
\* configuration unchanged, leaves the same hash both times.
C3_RehashIdempotent ==
    [][(/\ last.op \in {"NewBlock", "Rehash"}
        /\ last'.op = "Rehash"
        /\ last'.node = last.node
        /\ last'.prev = last.prev)
       => hash'[last.node] = hash[last.node]]_vars

\* C4: a composite with exactly one step s, hashed against prev, has the
\* hash that s has when s is hashed against prev on its own.
C4_SingleStepTransparent ==
    [][(/\ last'.op \in {"NewSeq", "NewPar", "Rehash"}
        /\ Kind(cls'[last'.node]) \in {"seq", "par"}
        /\ Len(steps'[last'.node]) = 1)
       => LET s == steps'[last'.node][1]
          IN  hash'[last'.node]
                = Run([Heap EXCEPT !.tab = digests'], s, last'.prev).H.hash[s]]_vars

\* C6: after a parallel composite of two or more steps is hashed, at
\* construction or later, steps with the same configuration hold the same
\* hash, whatever their siblings are or held.
C6_SiblingIndependent ==
    (/\ last.op \in {"NewPar", "Rehash"}
     /\ Kind(cls[last.node]) = "par"
     /\ Len(steps[last.node]) >= 2)
    => \A i, j \in 1..Len(steps[last.node]) :
          LET a == steps[last.node][i]
              b == steps[last.node][j]
          IN  (Kind(cls[a]) = "block" /\ cls[a] = cls[b]) => hash[a] = hash[b]

\* C7: two blocks of the same class holding the same hash get the same hash
\* against the same prev_hash, whether or not they have a parent.
C7_ParentNotTraversed ==
    \A a, b \in Nodes, prev \in PrevChoices :
        (/\ Kind(cls[a]) = "block"
         /\ cls[a] = cls[b]
         /\ hash[a] = hash[b]
         /\ parent[a] = None
         /\ parent[b] # None)
        => LET ra == Run(Heap, a, prev)
               rb == RunAfter(ra, Heap, b, prev)
           IN  ra.H.hash[a] = rb.H.hash[b]

\* s is l sorted by type name, equal names in the order of l.
IsStableSortOf(s, l) ==
    /\ Len(s) = Len(l)
    /\ \E p \in [1..Len(l) -> 1..Len(l)] :
          /\ \A i, j \in 1..Len(l) : i # j => p[i] # p[j]
          /\ \A i \in 1..Len(l) : s[i] = l[p[i]]
          /\ \A i, j \in 1..Len(l) :
                i < j => \/ NameRank(cls[l[p[i]]]) < NameRank(cls[l[p[j]]])
                         \/ /\ cls[l[p[i]]] = cls[l[p[j]]]
                            /\ p[i] < p[j]

StepOrders(l) ==
    {[i \in 1..Len(l) |-> l[p[i]]] :
        p \in {q \in [1..Len(l) -> 1..Len(l)] :
                  \A i, j \in 1..Len(l) : i # j => q[i] # q[j]}}

\* The hash of the parallel system of class c built on heap H from steps l.
ParHashOf(H, c, l) == MkPar(H, c, l).H.hash[Len(H.cls) + 1]

\* Nodes a and b have the same configuration: the same class and steps of
\* the same configuration, in the same order.
RECURSIVE SameConfig(_, _, _)
SameConfig(H, a, b) ==
    /\ H.cls[a] = H.cls[b]
    /\ Len(H.steps[a]) = Len(H.steps[b])
    /\ \A i \in 1..Len(H.steps[a]) : SameConfig(H, H.steps[a][i], H.steps[b][i])

\* Steps of l with the same type name have identical configuration.
InterchangeablePeers(H, l) ==
    \A i, j \in 1..Len(l) :
        H.cls[l[i]] = H.cls[l[j]] => SameConfig(H, l[i], l[j])

\* C9: when a parallel composite is built from steps that are interchangeable
\* peers (steps of the same type name have identical state), listing the
\* same steps in any other order gives the same hash.
C9_OrderInsensitive ==
    [][(last'.op = "NewPar" /\ InterchangeablePeers(Heap, last'.arg))
       => \A l \in StepOrders(last'.arg) :
              ParHashOf([Heap EXCEPT !.tab = digests'], cls'[last'.node], l)
                = hash'[last'.node]]_vars

----------------------------------------------------------------------------
\* Claims about whole trees (SpecBuild)

\* C5: two separately and freshly constructed composites of the same
\* structure, step order and step configuration have equal hashes.
C5_FreshTwinsAgree ==
    \A i, j \in 1..Len(built) :
        (built[i].fresh /\ built[j].fresh /\ built[i].shape = built[j].shape)
        => hash[built[i].root] = hash[built[j].root]

\* Two pipelines with x_sys, train_sys and pred_sys were built one after the
\* other.
C5_Witness ==
    /\ Len(built) = 2
    /\ built[1].fresh /\ built[2].fresh
    /\ built[1].shape = built[2].shape
    /\ built[1].root # built[2].root
    /\ cls[built[1].root] = "Pipeline"
    /\ slots[built[1].root].x_sys # None
    /\ slots[built[1].root].train_sys # None
    /\ slots[built[1].root].pred_sys # None
    /\ hash[built[1].root] # <<>>
    /\ hash[built[1].root] = hash[built[2].root]

\* hash(s) as recorded in the digest table.
DigestOf(s) ==
    IF \E i \in 1..Len(digests) : digests[i] = s
    THEN <<DigestToken(CHOOSE i \in 1..Len(digests) : digests[i] = s)>>
    ELSE <<"undigested">>

\* A stage that always digests a non-empty contribution c into r.
Folded(r, c) == IF c = <<>> THEN r ELSE DigestOf(r \o c)

\* A stage that replaces an empty r by a non-empty contribution c.
Substituted(r, c) ==
    IF c = <<>> THEN r ELSE IF r = <<>> THEN c ELSE DigestOf(r \o c)

PipelineHashed == Hashed /\ last.node # None /\ cls[last.node] = "Pipeline"

XYHash(n) == SlotHash(Heap, slots[n].x_sys) \o SlotHash(Heap, slots[n].y_sys)

PredLabelHash(n) ==
    SlotHash(Heap, slots[n].pred_sys) \o SlotHash(Heap, slots[n].label_sys)

TrainHash(n) == SlotHash(Heap, slots[n].train_sys)

\* The pipeline's hash is final; train_sys, if present, was hashed against
\* afterXY, the running hash after the x/y stage.
PipelineResult(n, afterXY, final) ==
    /\ slots[n].train_sys # None =>
          /\ Len(last.log) >= 2
          /\ last.log[2].node = slots[n].train_sys
          /\ last.log[2].by = 1
          /\ last.log[2].prev = afterXY
    /\ hash[n] = final

\* C10 as stated: both paired stages replace an empty running hash by their
\* non-empty concatenation, and a pipeline with no stage or only empty
\* systems has hash "".
C10_BothStagesSubstitute ==
    PipelineHashed =>
        LET n == last.node
            r1 == Substituted(last.prev, XYHash(n))
            r2 == Folded(r1, TrainHash(n))
        IN  /\ PipelineResult(n, r1, Substituted(r2, PredLabelHash(n)))
            /\ (last.op = "Build" /\ XYHash(n) \o TrainHash(n) \o PredLabelHash(n) = <<>>)
                  => hash[n] = <<>>

\* C10: the x/y stage leaves the running hash unchanged when its
\* concatenation is empty and otherwise makes it digest(running hash +
\* concatenation), also when the running hash is empty; only the pred/label
\* stage replaces an empty running hash by its non-empty concatenation; a
\* pipeline hashed against "" whose systems are absent or have hash "" has
\* hash "".
C10_PairedStages ==
    PipelineHashed =>
        LET n == last.node
            r1 == Folded(last.prev, XYHash(n))
            r2 == Folded(r1, TrainHash(n))
        IN  /\ PipelineResult(n, r1, Substituted(r2, PredLabelHash(n)))
            /\ (last.prev = <<>> /\ XYHash(n) \o TrainHash(n) \o PredLabelHash(n) = <<>>)
                  => hash[n] = <<>>

\* A pipeline with x_sys and train_sys was hashed against "": the x/y stage
\* digested; and one with only pred_sys took over its hash.
C10_Witness ==
    /\ Len(built) = 2
    /\ last.op = "Build"
    /\ LET p == built[1].root
           n == built[2].root
       IN  /\ cls[p] = "Pipeline" /\ cls[n] = "Pipeline"
           /\ slots[p].x_sys = None /\ slots[p].y_sys = None
           /\ slots[p].train_sys = None /\ slots[p].pred_sys # None
           /\ hash[p] = PredLabelHash(p) /\ hash[p] # <<>>
           /\ slots[n].x_sys # None /\ slots[n].train_sys # None
           /\ XYHash(n) # <<>>
           /\ last.log[2].prev = DigestOf(XYHash(n))
           /\ last.log[2].prev # XYHash(n)

----------------------------------------------------------------------------

----------------------------------------------------------------------------
\* Claims about running systems (SpecRun)

RunOps == {"transform", "train", "predict"}

\* The calls call k made on steps or stages, in the order they were made.
StepCalls(log, k) ==
    SelectSeq([i \in 1..Len(log) |-> i],
              LAMBDA j : log[j].by = k /\ log[j].op \in RunOps)

\* The concat / concat_labels calls call k made.
ConcatCalls(log, k) ==
    SelectSeq([i \in 1..Len(log) |-> i],
              LAMBDA j : log[j].by = k /\ log[j].op \notin RunOps)

\* Call k is a run of a system of the given kinds.
RunOf(log, k, kinds) ==
    log[k].op \in RunOps /\ Kind(cls[log[k].node]) \in kinds

\* C12: in a parallel system's transform / train / predict every step is
\* given the input that was passed to the system.
C12_OriginalInput ==
    Ran => \A k \in 1..Len(last.log) :
              RunOf(last.log, k, {"par"}) =>
                 \A i \in 1..Len(StepCalls(last.log, k)) :
                    last.log[StepCalls(last.log, k)[i]].in = last.log[k].in

\* The left fold of the user concat of system n over the values vs, from
\* value i on.
RECURSIVE FoldConcat(_, _, _, _)
FoldConcat(n, vs, i, acc) ==
    IF i > Len(vs) THEN acc
    ELSE FoldConcat(n, vs, i + 1, [k |-> "cat", by |-> n, l |-> acc, r |-> vs[i]])

\* Call k, a run of a parallel system that returned: the steps were called
\* in stored order, no concat for fewer than two steps, and the result is
\* the left fold of the step outputs (of their x and of their y in train).
ParCallFolds(log, k) ==
    LET n == log[k].node
        ks == StepCalls(log, k)
        cs == ConcatCalls(log, k)
        outs == [i \in 1..Len(ks) |-> log[ks[i]].out]
    IN  /\ Len(ks) = Len(steps[n])
        /\ \A i \in 1..Len(ks) : log[ks[i]].node = steps[n][i]
        /\ Len(ks) = 0 => log[k].out = log[k].in /\ cs = <<>>
        /\ Len(ks) = 1 => log[k].out = outs[1] /\ cs = <<>>
        /\ Len(ks) >= 2 =>
              IF log[k].op = "train"
              THEN /\ log[k].out =
                        Pair(FoldConcat(n, [i \in 1..Len(ks) |-> outs[i].x], 2, outs[1].x),
                             FoldConcat(n, [i \in 1..Len(ks) |-> outs[i].y], 2, outs[1].y))
                   /\ Len(cs) = 2 * (Len(ks) - 1)
                   /\ \A i \in 1..Len(cs) :
                         /\ log[cs[i]].op = IF i % 2 = 1 THEN "concat" ELSE "concat_labels"
                         /\ i % 2 = 0 =>
                               \E j \in 1..Len(log) :
                                  /\ log[j].by = cs[i]
                                  /\ log[j].op = "concat"
                                  /\ log[j].in = log[cs[i]].in
                                  /\ log[j].out = log[cs[i]].out
              ELSE /\ log[k].out = FoldConcat(n, outs, 2, outs[1])
                   /\ Len(cs) = Len(ks) - 1
                   /\ \A i \in 1..Len(cs) : log[cs[i]].op = "concat"

\* C13: a parallel system returns its input with no steps, its step's output
\* without calling concat with one step, and otherwise the left fold
\* concat(...concat(out1, out2)..., outn) in stored step order; in train the
\* labels are folded the same way through concat_labels, which calls concat.
C13_ParallelFold ==
    Ran => \A k \in 1..Len(last.log) :
              (RunOf(last.log, k, {"par"}) /\ last.log[k].err = NoError)
              => ParCallFolds(last.log, k)

\* A parallel training system of three trainers was trained and returned
\* the pair of left folds.
C13_Witness ==
    /\ last.op = "train"
    /\ Kind(cls[last.node]) = "par"
    /\ Len(steps[last.node]) = 3
    /\ last.err = NoError
    /\ last.out.x.k = "cat"
    /\ last.out.x.l.k = "cat"
    /\ last.out.x.r = last.log[StepCalls(last.log, 1)[3]].out.x
    /\ last.out.y.l.k = "cat"

\* Call k, a run of a sequential system that returned: the steps were called
\* in list order with the same operation, the first on the system's input
\* and each later one on the output of the one before; the result is the
\* last output.
SeqCallComposes(log, k) ==
    LET n == log[k].node
        ks == StepCalls(log, k)
    IN  /\ Len(ks) = Len(steps[n])
        /\ \A i \in 1..Len(ks) :
              /\ log[ks[i]].node = steps[n][i]
              /\ log[ks[i]].op = log[k].op
              /\ log[ks[i]].in = IF i = 1 THEN log[k].in ELSE log[ks[i - 1]].out
        /\ log[k].out = IF ks = <<>> THEN log[k].in ELSE log[ks[Len(ks)]].out

\* C14: a sequential system (TransformingSystem.transform,
\* TrainingSystem.train on the pair, TrainingSystem.predict and
\* RefiningSystem.predict on the single value) applies its steps in list
\* order, each on the output of the step before, nested systems included; a
\* system with no steps returns its input.
C14_SequentialComposition ==
    Ran => \A k \in 1..Len(last.log) :
              (RunOf(last.log, k, {"seq", "oldsys"}) /\ last.log[k].err = NoError)
              => SeqCallComposes(last.log, k)

\* TransformingSystem([A, B]).transform(x) returned B.transform(A.transform(x)).
C14_Witness ==
    /\ last.op = "transform"
    /\ cls[last.node] = "TransformingSystem"
    /\ Len(steps[last.node]) = 2
    /\ steps[last.node][1] # steps[last.node][2]
    /\ last.err = NoError
    /\ last.out = BlockOut(steps[last.node][2], "transform",
                           BlockOut(steps[last.node][1], "transform", Input("x"),
                                    Get(last.arg, "MyTransformer")),
                           Get(last.arg, "MyTransformer"))

\* C15: a step called by a transforming or training system receives the
\* entry of the system's keyword arguments keyed by the step's type name,
\* the empty map when there is none; nested systems do the same with the
\* entry they received.
C15_ConfigByTypeName ==
    Ran => \A k \in 1..Len(last.log) :
              (RunOf(last.log, k, {"seq", "par"})) =>
                 \A i \in 1..Len(StepCalls(last.log, k)) :
                    LET j == StepCalls(last.log, k)[i]
                    IN  last.log[j].args =
                           IF cls[last.log[j].node] \in DOMAIN last.log[k].args
                           THEN last.log[k].args[cls[last.log[j].node]]
                           ELSE <<>>

\* A block two systems deep received the innermost entry of the caller's
\* map, and a block at the top level received none.
C15_Witness ==
    /\ last.op = "transform"
    /\ last.err = NoError
    /\ \E a, b, c, d \in 1..Len(last.log) :
          /\ last.log[a].by = 1 /\ last.log[a].args = <<>>
          /\ Kind(cls[last.log[a].node]) = "block"
          /\ last.log[b].by = 1 /\ last.log[c].by = b /\ last.log[d].by = c
          /\ last.log[d].args = Kw("3")
          /\ last.log[c].args = [MyTransformer |-> Kw("3")]

\* The stages of Pipeline.train and of Pipeline.predict: slot, operation
\* and the part of the running (x, y) the stage works on.
TrainStages ==
    << [name |-> "x_sys", op |-> "transform", on |-> "x"],
       [name |-> "y_sys", op |-> "transform", on |-> "y"],
       [name |-> "train_sys", op |-> "train", on |-> "xy"],
       [name |-> "pred_sys", op |-> "transform", on |-> "x"],
       [name |-> "label_sys", op |-> "transform", on |-> "y"] >>

PredictStages ==
    << [name |-> "x_sys", op |-> "transform", on |-> "x"],
       [name |-> "train_sys", op |-> "predict", on |-> "x"],
       [name |-> "pred_sys", op |-> "transform", on |-> "x"] >>

PresentStages(n, stages) ==
    SelectSeq(stages, LAMBDA s : slots[n][s.name] # None)

\* The running (x, y) after the first i of the calls ks, stage ps[j] having
\* made call ks[j].
RECURSIVE AfterStages(_, _, _, _, _)
AfterStages(log, ks, ps, i, start) ==
    IF i = 0 THEN start
    ELSE LET cur == AfterStages(log, ks, ps, i - 1, start)
             out == log[ks[i]].out
         IN  IF ps[i].on = "x" THEN Pair(out, cur.y)
             ELSE IF ps[i].on = "y" THEN Pair(cur.x, out)
             ELSE out

\* Call k of a pipeline made exactly the calls of its present stages, in
\* stage order, each on the running value left by the stages before it.
StagesInOrder(log, k, stages, start) ==
    LET n == log[k].node
        ks == StepCalls(log, k)
        ps == PresentStages(n, stages)
    IN  /\ Len(ks) = Len(ps)
        /\ \A i \in 1..Len(ks) :
              LET cur == AfterStages(log, ks, ps, i - 1, start)
              IN  /\ log[ks[i]].node = slots[n][ps[i].name]
                  /\ log[ks[i]].op = ps[i].op
                  /\ log[ks[i]].in = IF ps[i].on = "x" THEN cur.x
                                     ELSE IF ps[i].on = "y" THEN cur.y
                                     ELSE cur

\* C16: Pipeline.train runs x_sys.transform(x), y_sys.transform(y),
\* train_sys.train(x, y), pred_sys.transform(x), label_sys.transform(y) in
\* this order on the running values and returns the final (x, y); an absent
\* stage leaves the values untouched, so a pipeline of no stages returns
\* its input.
C16_PipelineTrainOrder ==
    Ran => \A k \in 1..Len(last.log) :
              (/\ Kind(cls[last.log[k].node]) = "pipeline"
               /\ last.log[k].op = "train"
               /\ last.log[k].err = NoError)
              => /\ StagesInOrder(last.log, k, TrainStages, last.log[k].in)
                 /\ last.log[k].out =
                       AfterStages(last.log, StepCalls(last.log, k),
                                   PresentStages(last.log[k].node, TrainStages),
                                   Len(StepCalls(last.log, k)), last.log[k].in)

\* A pipeline of five stages was trained: five stage calls, and the result
\* pairs the outputs of pred_sys and label_sys.
C16_Witness ==
    /\ last.op = "train"
    /\ cls[last.node] = "Pipeline"
    /\ \A i \in 1..Len(SlotNames) : slots[last.node][SlotNames[i]] # None
    /\ last.err = NoError
    /\ Len(StepCalls(last.log, 1)) = 5
    /\ last.out = Pair(last.log[StepCalls(last.log, 1)[4]].out,
                       last.log[StepCalls(last.log, 1)[5]].out)
    /\ last.log[StepCalls(last.log, 1)[3]].in =
          Pair(last.log[StepCalls(last.log, 1)[1]].out,
               last.log[StepCalls(last.log, 1)[2]].out)

\* C17: Pipeline.predict runs only x_sys.transform, train_sys.predict and
\* pred_sys.transform, in this order on the running value; it makes no call
\* on y_sys or label_sys, nothing is trained, and a pipeline of no stages
\* returns x.
C17_PipelinePredictOrder ==
    Ran => \A k \in 1..Len(last.log) :
              (/\ Kind(cls[last.log[k].node]) = "pipeline"
               /\ last.log[k].op = "predict")
              => /\ \A j \in 1..Len(last.log) :
                       (last.log[j].by = k \/ j = k) => last.log[j].op # "train"
                 /\ last.op = "predict" =>
                       \A j \in 1..Len(last.log) : last.log[j].op # "train"
                 /\ built[1].fresh =>
                       \A j \in 1..Len(last.log) :
                          last.log[j].node \notin
                             {slots[last.log[k].node].y_sys,
                              slots[last.log[k].node].label_sys}
                 /\ last.log[k].err = NoError =>
                       /\ StagesInOrder(last.log, k, PredictStages,
                                        Pair(last.log[k].in, NoValue))
                       /\ last.log[k].out =
                             AfterStages(last.log, StepCalls(last.log, k),
                                         PresentStages(last.log[k].node, PredictStages),
                                         Len(StepCalls(last.log, k)),
                                         Pair(last.log[k].in, NoValue)).x

\* predict ran on a pipeline of five stages: three stage calls, none on
\* y_sys or label_sys.
C17_Witness ==
    /\ last.op = "predict"
    /\ cls[last.node] = "Pipeline"
    /\ \A i \in 1..Len(SlotNames) : slots[last.node][SlotNames[i]] # None
    /\ last.err = NoError
    /\ Len(StepCalls(last.log, 1)) = 3
    /\ last.log[StepCalls(last.log, 1)[2]].op = "predict"
    /\ last.out = last.log[StepCalls(last.log, 1)[3]].out

\* C18: constructing a TransformingSystem, TrainingSystem, RefiningSystem or
\* parallel system with a step outside its allowed set fails with an
\* assertion error, no object's parent link, children or hash having
\* changed and no step operation having run.
C18_ConstructionRejects ==
    [][(/\ last'.op = "New"
        /\ \E i \in 1..Len(last'.arg) : ~AllowedAtInit(last'.class, cls[last'.arg[i]]))
       => /\ last'.err.kind = "AssertionError"
          /\ last'.log = <<>>
          /\ <<cls, parent, children, steps, hash>>' = <<cls, parent, children, steps, hash>>
      ]_vars

\* Call j was made, directly or not, by call k.
RECURSIVE Descends(_, _, _)
Descends(log, j, k) ==
    /\ log[j].by # 0
    /\ log[j].by = k \/ Descends(log, log[j].by, k)

\* An error of a call is the error of the call that made it, up to the
\* caller, and nothing is called after it.
ErrorsPropagate ==
    /\ last.log # <<>> => last.err = last.log[1].err
    /\ \A j \in 1..Len(last.log) :
          last.log[j].err # NoError =>
             /\ last.log[j].by # 0 => last.log[last.log[j].by].err = last.log[j].err
             /\ \A l \in (j + 1)..Len(last.log) : Descends(last.log, l, j)

\* The first step of system n that its run does not dispatch, 0 if none.
FirstOffending(n) ==
    LET bad == {i \in 1..Len(steps[n]) : ~Dispatches(cls[n], cls[steps[n][i]])}
    IN  IF bad = {} THEN 0 ELSE CHOOSE i \in bad : \A l \in bad : i <= l

\* C19: a run of a system whose steps hold a member the run does not
\* dispatch raises a type error naming the first such step once the steps
\* before it have run; that step and the steps after it are not called, no
\* later stage of a pipeline is called, and the error reaches the caller.
C19_DispatchError ==
    Ran => /\ ErrorsPropagate
           /\ \A k \in 1..Len(last.log) :
                 (RunOf(last.log, k, {"seq", "par", "oldsys"})
                  /\ FirstOffending(last.log[k].node) # 0)
                 => LET n == last.log[k].node
                        i == FirstOffending(n)
                        ks == StepCalls(last.log, k)
                        cs == ConcatCalls(last.log, k)
                    IN  /\ Len(ks) <= i - 1
                        /\ \A l \in 1..Len(ks) : last.log[ks[l]].node = steps[n][l]
                        /\ last.log[k].err # NoError
                        /\ (/\ Len(ks) = i - 1
                            /\ \A l \in 1..Len(ks) : last.log[ks[l]].err = NoError
                            /\ \A l \in 1..Len(cs) : last.log[cs[l]].err = NoError)
                           => last.log[k].err = [kind |-> "TypeError", node |-> steps[n][i]]

\* The x_sys of a pipeline had its steps replaced, the second one now being
\* a trainer: the run called the first step, raised the type error naming
\* the second, and train_sys was never called.
C19_Witness ==
    /\ Ran
    /\ cls[last.node] = "Pipeline"
    /\ slots[last.node].x_sys # None
    /\ slots[last.node].train_sys # None
    /\ Len(steps[slots[last.node].x_sys]) = 2
    /\ FirstOffending(slots[last.node].x_sys) = 2
    /\ last.err = [kind |-> "TypeError", node |-> steps[slots[last.node].x_sys][2]]
    /\ Len(last.log) = 3
    /\ last.log[3].node = steps[slots[last.node].x_sys][1]
    /\ last.log[3].err = NoError

BaseBlocks == {"Transformer", "Trainer", "Refiner"}

BaseParallel == {"ParallelTransformingSystem", "ParallelTrainingSystem"}

\* C20: transform on a base Transformer, train or predict on a base
\* Trainer, predict on a base Refiner and concat or concat_labels on a
\* parallel system without a concat of its own raise the abstract-method
\* error; a run of such a parallel system whose first two steps returned
\* fails with it, and the error reaches the caller.
C20_AbstractMethods ==
    Ran => /\ ErrorsPropagate
           /\ last.log # <<>>
           /\ \A k \in 1..Len(last.log) :
                 LET n == last.log[k].node
                     e == last.log[k]
                     ks == StepCalls(last.log, k)
                 IN  /\ (cls[n] \in BaseBlocks /\ e.op \in RunOps)
                        => e.err = [kind |-> "NotImplementedError", node |-> n]
                     /\ (cls[n] \in BaseParallel /\ e.op \notin RunOps)
                        => e.err = [kind |-> "NotImplementedError", node |-> n]
                     /\ (cls[n] \in BaseParallel /\ e.op \in RunOps /\ Len(steps[n]) >= 2)
                        => /\ e.err # NoError
                           /\ (/\ Len(ks) >= 2
                               /\ last.log[ks[1]].err = NoError
                               /\ last.log[ks[2]].err = NoError)
                              => e.err = [kind |-> "NotImplementedError", node |-> n]

\* A ParallelTrainingSystem of two trainers was trained: both trainers
\* returned, concat raised and the caller got the abstract-method error.
C20_Witness ==
    /\ last.op = "train"
    /\ cls[last.node] = "ParallelTrainingSystem"
    /\ Len(steps[last.node]) >= 2
    /\ Len(StepCalls(last.log, 1)) = 2
    /\ \A l \in 1..2 : last.log[StepCalls(last.log, 1)[l]].err = NoError
    /\ Len(ConcatCalls(last.log, 1)) = 1
    /\ last.err = [kind |-> "NotImplementedError", node |-> last.node]

----------------------------------------------------------------------------
\* Claims about weights, ownership and stored hashes (SpecCompose, SpecBuild)

\* The last operation constructed a parallel system with these weights.
Weighted == last.op = "NewParWeighted"

\* C21: constructing a parallel system with a non-empty weights list whose
\* length differs from the number of steps fails with an error.
C21_WeightsLengthChecked ==
    (Weighted /\ last.w # <<>> /\ Len(last.w) # Len(last.arg))
    => last.err # NoError

\* The sum of the fractions of w from index i on.
RECURSIVE FracSum(_, _)
FracSum(w, i) == IF i > Len(w) THEN <<0, 1>> ELSE FracAdd(w[i], FracSum(w, i + 1))

\* Fraction f is a / b.
IsRatio(f, a, b) == b # 0 /\ f[1] * b = a * f[2]

\* C22: after construction of a parallel system with n >= 1 steps the
\* stored weights are n fractions that sum to 1: each supplied weight
\* divided by the sum of the supplied weights when n weights were supplied,
\* and 1/n each when none were.
C22_WeightsNormalized ==
    (Weighted /\ last.err = NoError /\ Len(last.arg) >= 1)
    => LET n == last.node
           cnt == Len(steps[n])
       IN  /\ cnt = Len(last.arg)
           /\ Len(weights[n]) = cnt
           /\ FracSum(weights[n], 1) = <<1, 1>>
           /\ Len(last.w) = cnt =>
                 \A i \in 1..cnt : IsRatio(weights[n][i], last.w[i], Sum(last.w, 1))
           /\ last.w = <<>> => \A i \in 1..cnt : IsRatio(weights[n][i], 1, cnt)

\* A parallel system of two steps was given the weights 1 and 2 and stores
\* 1/3 and 2/3.
C22_Witness ==
    /\ Weighted
    /\ last.err = NoError
    /\ Len(last.arg) = 2
    /\ last.w = <<1, 2>>
    /\ weights[last.node] = <<(<<1, 3>>), (<<2, 3>>)>>

\* The positions of the supplied list that hold step m.
PositionsOf(m) == {j \in 1..Len(last.arg) : last.arg[j] = m}

\* C26: after construction of a parallel system with one weight per step,
\* the weight stored at index i is the normalised weight that was supplied
\* for the step now stored at index i.
C26_WeightsFollowSteps ==
    (Weighted /\ last.err = NoError /\ Len(last.w) = Len(last.arg))
    => LET n == last.node
       IN  \A i \in 1..Len(steps[n]) :
              \E j \in PositionsOf(steps[n][i]) :
                 IsRatio(weights[n][i], last.w[j], Sum(last.w, 1))

\* Composite c was constructed with node n among its steps or slots.
Holds(c, n) ==
    \/ \E i \in 1..Len(steps[c]) : steps[c][i] = n
    \/ \E i \in 1..Len(SlotNames) : slots[c][SlotNames[i]] = n

Owners(n) == {c \in Nodes : Holds(c, n)}

\* Nodes are numbered in the order of their construction.
Latest(S) == CHOOSE c \in S : \A d \in S : d <= c

\* C23: each node's parent is the composite most recently constructed with
\* that node among its steps or slots, and none if there is no such
\* composite; a Pipeline's children are its present slots in slot order.
C23_LastWriteWins ==
    /\ \A n \in Nodes :
          parent[n] = IF Owners(n) = {} THEN None ELSE Latest(Owners(n))
    /\ \A p \in Nodes :
          cls[p] = "Pipeline" =>
             /\ children[p] = SelectSeq([i \in 1..Len(SlotNames) |-> slots[p][SlotNames[i]]],
                                        LAMBDA v : v # None)
             /\ \A i \in 1..Len(children[p]) : Owners(children[p][i]) # {}

\* A system that was the x_sys of one pipeline became the y_sys of a later
\* one, which is now its parent.
C23_Witness ==
    \E n, p, q \in Nodes :
       /\ p < q
       /\ cls[p] = "Pipeline" /\ cls[q] = "Pipeline"
       /\ slots[p].x_sys = n
       /\ slots[q].y_sys = n
       /\ parent[n] = q
       /\ children[p] = <<n>>

\* Node a is an ancestor of node n: the parent of n, or an ancestor of it.
RECURSIVE IsAncestor(_, _, _)
IsAncestor(a, n, fuel) ==
    /\ fuel > 0
    /\ parent[n] # None
    /\ parent[n] = a \/ IsAncestor(a, parent[n], fuel - 1)

\* C30: every node among the children of a composite has that composite as
\* its parent, and no node is its own ancestor.
C30_OwnershipIsATree ==
    /\ \A c \in Nodes : \A i \in 1..Len(children[c]) : parent[children[c][i]] = c
    /\ \A n \in Nodes : ~IsAncestor(n, n, Len(cls))

\* The stored hash of sequential composite n is that of its last step.
EndsOnLastStep(n) == hash[n] = hash[steps[n][Len(steps[n])]]

NonEmptySeq(n) == Kind(cls[n]) = "seq" /\ steps[n] # <<>>

\* C29, as stated: in every reachable state a non-empty sequential
\* composite's stored hash equals the stored hash of its last step.
C29_AlwaysLastStepHash ==
    \A n \in Nodes : NonEmptySeq(n) => EndsOnLastStep(n)

\* C29, amended: right after a non-empty sequential composite was
\* constructed or had its hash computed by the caller, its stored hash
\* equals the stored hash of its last step.
C29_LastStepHashAfterSetHash ==
    (last.op \in {"NewSeq", "Rehash"} /\ NonEmptySeq(last.node))
    => EndsOnLastStep(last.node)

\* A sequential composite was re-hashed and ends on its last step's hash,
\* while another composite, which shares the step, is stale.
C29_Witness ==
    /\ last.op = "Rehash"
    /\ NonEmptySeq(last.node)
    /\ EndsOnLastStep(last.node)
    /\ hash[last.node] # <<>>
    /\ \E m \in Nodes : NonEmptySeq(m) /\ ~EndsOnLastStep(m)

\* A slot shape holding a system with no steps.
EmptySystem(s) == s # Absent /\ Kind(s.cls) \in {"seq", "par"} /\ s.kids = <<>>

\* Pipeline shape t is pipeline shape s with some of its empty systems
\* replaced by absent slots.
EmptiedToAbsent(s, t) ==
    /\ s.cls = "Pipeline" /\ t.cls = "Pipeline"
    /\ s # t
    /\ \A i \in 1..Len(SlotNames) :
          t.kids[i] = s.kids[i] \/ (EmptySystem(s.kids[i]) /\ t.kids[i] = Absent)

\* C27: a Pipeline slot holding a system with no steps has the same effect
\* on the Pipeline's hash as an absent slot, whatever the other slots hold.
C27_EmptySlotIsAbsent ==
    \A i, j \in 1..Len(built) :
        (built[i].fresh /\ built[j].fresh
         /\ EmptiedToAbsent(built[i].shape, built[j].shape))
        => hash[built[i].root] = hash[built[j].root]

\* Pipeline shape s holds system shape sys in slot i and nothing else.
OnlySlot(s, i, sys) ==
    /\ s.cls = "Pipeline"
    /\ sys # Absent /\ sys.kids # <<>>
    /\ \A j \in 1..Len(SlotNames) : s.kids[j] = IF j = i THEN sys ELSE Absent

\* C28: the digest being injective, Pipeline(x_sys=S) and Pipeline(y_sys=S)
\* have different hashes for a non-empty system S, so have
\* Pipeline(pred_sys=S) and Pipeline(label_sys=S), and the hash of a
\* Pipeline holding only S differs from the hash of S.
C28_SlotsDistinguished ==
    \A a, b \in 1..Len(built) :
        (built[a].fresh /\ built[b].fresh) =>
           \A i \in 1..Len(SlotNames) :
              LET sys == built[a].shape.kids[i]
              IN  (built[a].shape.cls = "Pipeline" /\ OnlySlot(built[a].shape, i, sys))
                  => /\ hash[built[a].root] # hash[slots[built[a].root][SlotNames[i]]]
                     /\ (i \in {1, 4} /\ OnlySlot(built[b].shape, i + 1, sys))
                        => hash[built[a].root] # hash[built[b].root]

\* C24: reassigning a composite's steps or a Pipeline's slots after
\* construction, and running transform / train / predict, leave the stored
\* hash, the parent and the children of every node unchanged; a stored hash
\* changes only in a hash computation made on the node or on a composite
\* that contains it.
C24_HashChangesOnlyWhenComputed ==
    [][/\ last'.op \in {"Replace", "ReplaceSlot"} \cup RunOps
          => /\ hash' = hash
             /\ parent' = parent
             /\ children' = children
       /\ \A n \in Nodes :
             hash'[n] # hash[n]
             => /\ last'.op = "New"
                /\ \E i \in 1..Len(last'.arg) : Reaches(Heap, last'.arg[i], n)
                /\ \E k \in 1..Len(last'.log) : last'.log[k].node = n
      ]_vars

\* A system whose steps were reassigned was run: its children are still
\* the steps it was constructed with, and its hash is still the hash of
\* the step it no longer has.
C24_Witness ==
    /\ Ran
    /\ last.log # <<>>
    /\ \E n \in Nodes :
          /\ Kind(cls[n]) \in {"seq", "par"}
          /\ children[n] # <<>>
          /\ steps[n] # <<>>
          /\ children[n] # steps[n]
          /\ \E k \in 1..Len(last.log) : last.log[k].node = n
          /\ Kind(cls[n]) = "seq" => hash[n] = hash[children[n][Len(children[n])]]

\* The step types the documentation gives for each system type.
Documented(c, stepCls) ==
    CASE Super(c) \in {"TransformingSystem", "ParallelTransformingSystem"} ->
            Super(stepCls) \in {"Transformer", "TransformingSystem",
                                "ParallelTransformingSystem"}
      [] Super(c) \in {"TrainingSystem", "ParallelTrainingSystem"} ->
            Super(stepCls) \in {"Trainer", "TrainingSystem", "ParallelTrainingSystem"}
      [] OTHER -> FALSE

\* C25: for transforming and training systems, sequential and parallel, the
\* constructor accepts exactly the documented step types, and the dispatch
\* of transform / train / predict accepts exactly the same ones.
C25_AcceptedSetsAgree ==
    (last.op = "New"
     /\ Super(last.class) \in {"TransformingSystem", "ParallelTransformingSystem",
                               "TrainingSystem", "ParallelTrainingSystem"})
    => /\ (last.err = NoError)
          <=> \A i \in 1..Len(last.arg) : Documented(last.class, cls[last.arg[i]])
       /\ \A n \in Nodes :
             Dispatches(last.class, cls[n]) <=> Documented(last.class, cls[n])

====
